---- MODULE Spec2Model ----
(***************************************************************************)
(* sync_snowflake_packages.py: the pipeline main() runs, download_packages *)
(* -> create_zip -> upload_to_snowflake -> cleanup, over a filesystem, a   *)
(* process environment and a warehouse connection.                         *)
(*                                                                         *)
(* The filesystem is a pair of sets of paths (directories, regular files); *)
(* a path is a sequence of names.  The archive file's content is a bag of  *)
(* entry names (ZipFile.write appends an entry per call and keeps          *)
(* duplicates; the order of entries is the order of os.walk, which the     *)
(* platform chooses).  A library call that does I/O either succeeds or     *)
(* raises; a raise inside main()'s try block reaches its except clause.    *)
(* setup_args() is taken to have returned the parsed arguments.            *)
(***************************************************************************)
EXTENDS Integers, Sequences, FiniteSets, Bags, TLC

MaxRuns == 2
MaxDepth == 2

Names == {"a", "b"}
Wheels == {"w1.whl", "w2.whl"}
None == "None"

download_dir == <<"dl">>
zip_name == <<"pkg.zip">>

VARIABLES fsDirs, fsFiles, zipf, zip0, pc, exitStatus, failure, failedFrom,
          calls, driver, env, connOpen, pending, run

vars == <<fsDirs, fsFiles, zipf, zip0, pc, exitStatus, failure, failedFrom,
          calls, driver, env, connOpen, pending, run>>

fsVars == <<fsDirs, fsFiles, zipf>>
connVars == <<driver, env, connOpen, pending>>

----------------------------------------------------------------------------
(* Paths *)

join(root, name) == root \o <<name>>

Parent(p) == SubSeq(p, 1, Len(p) - 1)

Under(p, q) == Len(q) >= Len(p) /\ SubSeq(q, 1, Len(p)) = p

relpath(path, start) == SubSeq(path, Len(start) + 1, Len(path))

exists(dirs, files, p) == p \in dirs \/ p \in files

(* shutil.rmtree(p) that completes: p and everything below it is gone. *)
rmtree(S, p) == {q \in S : ~Under(p, q)}

(* What shutil.rmtree(p) can leave behind when it raises part-way: p and a *)
(* parent-closed part of what was below it.                                *)
PartialTrees(S, p) ==
    {R \in SUBSET {q \in S : Under(p, q)} :
        /\ p \in R
        /\ \A q \in R : Len(q) > Len(p) => Parent(q) \in R}

----------------------------------------------------------------------------
(* Directory trees of bounded depth below a root directory. *)

RECURSIVE TreesAt(_, _)
RECURSIVE Combine(_, _, _)

ChildOptions(p, c, d) ==
    {[dirs |-> {}, files |-> {}], [dirs |-> {}, files |-> {join(p, c)}]}
        \cup TreesAt(join(p, c), d - 1)

Combine(p, names, d) ==
    IF names = {} THEN {[dirs |-> {p}, files |-> {}]}
    ELSE LET c == CHOOSE x \in names : TRUE
         IN {[dirs |-> r.dirs \cup o.dirs, files |-> r.files \cup o.files] :
                r \in Combine(p, names \ {c}, d), o \in ChildOptions(p, c, d)}

TreesAt(p, d) ==
    IF d = 0 THEN {[dirs |-> {p}, files |-> {}]} ELSE Combine(p, Names, d)

----------------------------------------------------------------------------
(* create_zip's loop: os.walk over source_dir, one zipf.write per file. *)

(* Variant: the entry is named by the file name alone. *)
arcnameBasename(file_path, source_dir) == <<file_path[Len(file_path)]>>

(* arcname = os.path.relpath(file_path, source_dir) *)
arcname(file_path, source_dir) == relpath(file_path, source_dir)

RECURSIVE WriteFiles(_, _, _)
WriteFiles(root, names, source_dir) ==
    IF names = {} THEN EmptyBag
    ELSE LET file == CHOOSE x \in names : TRUE
             file_path == join(root, file)
         IN SetToBag({arcname(file_path, source_dir)})
                (+) WriteFiles(root, names \ {file}, source_dir)

RECURSIVE walk(_, _, _, _)
RECURSIVE WalkDirs(_, _, _, _)

walk(dirs, files, root, source_dir) ==
    LET filenames == {f[Len(f)] : f \in {g \in files : Len(g) > 0 /\ Parent(g) = root}}
        subdirs == {d \in dirs : Len(d) > 0 /\ Parent(d) = root}
    IN WriteFiles(root, filenames, source_dir)
           (+) WalkDirs(dirs, files, subdirs, source_dir)

WalkDirs(dirs, files, D, source_dir) ==
    IF D = {} THEN EmptyBag
    ELSE LET d == CHOOSE x \in D : TRUE
         IN walk(dirs, files, d, source_dir)
                (+) WalkDirs(dirs, files, D \ {d}, source_dir)

----------------------------------------------------------------------------
(* The process environment upload_to_snowflake reads. *)

Envs ==
    [account : {None, "", "acc"}, user : {None, "", "usr"},
     password : {None, "", "pwd"}, role : {None, "role"},
     warehouse : {None, "wh"}, database : {None, "db"}, schema : {None, "sch"}]

NoEnv ==
    [account |-> None, user |-> None, password |-> None, role |-> None,
     warehouse |-> None, database |-> None, schema |-> None]

Truthy(v) == v # None /\ v # ""

(* Variant: the password is left out of the check. *)
HasCredentialsNoPassword(e) == Truthy(e.account) /\ Truthy(e.user)

(* all([account, user, password]) *)
HasCredentials(e) == Truthy(e.account) /\ Truthy(e.user) /\ Truthy(e.password)

----------------------------------------------------------------------------
(* The per-run state of main(). *)

RunState(p) ==
    CASE p = "init" -> "INIT"
      [] p \in {"rmtree", "makedirs", "pip"} -> "FETCHING"
      [] p \in {"call_zip", "zip_open", "zip_write"} -> "ARCHIVING"
      [] p \in {"call_upload", "import", "creds", "connect", "put", "close"} -> "UPLOADING"
      [] p \in {"clean_dir", "clean_zip"} -> "CLEANUP"
      [] p = "done" -> "DONE"
      [] OTHER -> "FAILED"

Raise(exc) ==
    /\ pc' = "except"
    /\ failure' = exc
    /\ failedFrom' = RunState(pc)
    /\ exitStatus' = exitStatus

Goto(p) ==
    /\ pc' = p
    /\ UNCHANGED <<failure, failedFrom, exitStatus>>

Log(ev) == calls' = Append(calls, ev)

ZipState == [present |-> zip_name \in fsFiles, entries |-> zipf]

----------------------------------------------------------------------------
Init ==
    /\ \E t \in {[dirs |-> {}, files |-> {}]} \cup TreesAt(download_dir, 1) :
          fsDirs = t.dirs /\ fsFiles = t.files
    /\ zipf = EmptyBag
    /\ zip0 = [present |-> FALSE, entries |-> EmptyBag]
    /\ pc = "init"
    /\ exitStatus = -1
    /\ failure = "none"
    /\ failedFrom = "none"
    /\ calls = <<>>
    /\ driver = TRUE
    /\ env = NoEnv
    /\ connOpen = FALSE
    /\ pending = "none"
    /\ run = 1

----------------------------------------------------------------------------
(* download_packages *)

CallDownload ==
    /\ pc = "init"
    /\ Log("download_packages")
    /\ Goto("rmtree")
    /\ UNCHANGED <<fsVars, zip0, connVars, run>>

(* Variant: an existing download directory is reused, not removed. *)
DownloadRmtreeKeep ==
    /\ pc = "rmtree"
    /\ Log("download_packages.rmtree")
    /\ Goto("makedirs")
    /\ UNCHANGED <<fsVars, zip0, connVars, run>>

DownloadRmtree ==
    /\ pc = "rmtree"
    /\ IF exists(fsDirs, fsFiles, download_dir)
       THEN /\ fsDirs' = rmtree(fsDirs, download_dir)
            /\ fsFiles' = rmtree(fsFiles, download_dir)
            /\ Log("download_packages.rmtree")
       ELSE UNCHANGED <<fsDirs, fsFiles, calls>>
    /\ Goto("makedirs")
    /\ UNCHANGED <<zipf, zip0, connVars, run>>

DownloadRmtreeError ==
    /\ pc = "rmtree"
    /\ exists(fsDirs, fsFiles, download_dir)
    /\ \E R \in PartialTrees(fsDirs \cup fsFiles, download_dir) :
          /\ fsDirs' = rmtree(fsDirs, download_dir) \cup (R \cap fsDirs)
          /\ fsFiles' = rmtree(fsFiles, download_dir) \cup (R \cap fsFiles)
    /\ Log("download_packages.rmtree")
    /\ Raise("OSError")
    /\ UNCHANGED <<zipf, zip0, connVars, run>>

DownloadMakedirs ==
    /\ pc = "makedirs"
    /\ fsDirs' = fsDirs \cup {download_dir}
    /\ Goto("pip")
    /\ UNCHANGED <<fsFiles, zipf, zip0, calls, connVars, run>>

DownloadMakedirsError ==
    /\ pc = "makedirs"
    /\ Raise("OSError")
    /\ UNCHANGED <<fsVars, zip0, calls, connVars, run>>

(* subprocess.check_call returns: pip exited 0 and saved every artifact. *)
PipOk ==
    /\ pc = "pip"
    /\ fsFiles' = fsFiles \cup {join(download_dir, w) : w \in Wheels}
    /\ Log("download_packages.return")
    /\ Goto("call_zip")
    /\ UNCHANGED <<fsDirs, zipf, zip0, connVars, run>>

(* Variant: the tool's exit status is not checked (subprocess.call). *)
PipErrorIgnored ==
    /\ pc = "pip"
    /\ \E saved \in (SUBSET Wheels) \ {Wheels} :
          fsFiles' = fsFiles \cup {join(download_dir, w) : w \in saved}
    /\ Log("download_packages.return")
    /\ Goto("call_zip")
    /\ UNCHANGED <<fsDirs, zipf, zip0, connVars, run>>

(* pip exited non-zero, having saved some of the artifacts or none:        *)
(* CalledProcessError is logged and re-raised.                             *)
PipError ==
    /\ pc = "pip"
    /\ \E saved \in (SUBSET Wheels) \ {Wheels} :
          fsFiles' = fsFiles \cup {join(download_dir, w) : w \in saved}
    /\ Raise("CalledProcessError")
    /\ UNCHANGED <<fsDirs, zipf, zip0, calls, connVars, run>>

----------------------------------------------------------------------------
(* create_zip *)

CallCreateZip ==
    /\ pc = "call_zip"
    /\ Log("create_zip")
    /\ Goto("zip_open")
    /\ UNCHANGED <<fsVars, zip0, connVars, run>>

(* zipfile.ZipFile(output_filename, 'w', ...): creates or truncates. *)
ZipOpen ==
    /\ pc = "zip_open"
    /\ fsFiles' = fsFiles \cup {zip_name}
    /\ zipf' = EmptyBag
    /\ Goto("zip_write")
    /\ UNCHANGED <<fsDirs, zip0, calls, connVars, run>>

(* Variant: an archive error is swallowed and the pipeline goes on. *)
ZipOpenErrorContinue ==
    /\ pc = "zip_open"
    /\ Goto("call_upload")
    /\ UNCHANGED <<fsVars, zip0, calls, connVars, run>>

ZipOpenError ==
    /\ pc = "zip_open"
    /\ Raise("OSError")
    /\ UNCHANGED <<fsVars, zip0, calls, connVars, run>>

ZipWrite ==
    /\ pc = "zip_write"
    /\ zipf' = zipf (+) walk(fsDirs, fsFiles, download_dir, download_dir)
    /\ Log("create_zip.return")
    /\ Goto("call_upload")
    /\ UNCHANGED <<fsDirs, fsFiles, zip0, connVars, run>>

(* A zipf.write raises part-way; the with block closes the archive with    *)
(* the entries written so far.                                             *)
ZipWriteError ==
    /\ pc = "zip_write"
    /\ \E written \in SubBag(walk(fsDirs, fsFiles, download_dir, download_dir)) :
          zipf' = zipf (+) written
    /\ Raise("OSError")
    /\ UNCHANGED <<fsDirs, fsFiles, zip0, calls, connVars, run>>

----------------------------------------------------------------------------
(* upload_to_snowflake *)

(* The process environment and the installed packages are what they are at *)
(* the moment of the call.                                                 *)
CallUpload ==
    /\ pc = "call_upload"
    /\ \E d \in BOOLEAN, e \in Envs : driver' = d /\ env' = e
    /\ Log("upload_to_snowflake")
    /\ Goto("import")
    /\ UNCHANGED <<fsVars, zip0, connOpen, pending, run>>

Import ==
    /\ pc = "import"
    /\ driver
    /\ Goto("creds")
    /\ UNCHANGED <<fsVars, zip0, calls, connVars, run>>

(* except ImportError: sys.exit(1).  SystemExit is no Exception: main()'s  *)
(* except clause does not see it and the process ends with status 1.       *)
ImportErrorExit ==
    /\ pc = "import"
    /\ ~driver
    /\ pc' = "failed"
    /\ exitStatus' = 1
    /\ failure' = "SystemExit"
    /\ failedFrom' = RunState(pc)
    /\ UNCHANGED <<fsVars, zip0, calls, connVars, run>>

Credentials ==
    /\ pc = "creds"
    /\ IF HasCredentials(env) THEN Goto("connect") ELSE Raise("ValueError")
    /\ UNCHANGED <<fsVars, zip0, calls, connVars, run>>

Connect ==
    /\ pc = "connect"
    /\ calls' = calls \o <<"connect", "connect.return">>
    /\ connOpen' = TRUE
    /\ Goto("put")
    /\ UNCHANGED <<fsVars, zip0, driver, env, pending, run>>

ConnectError ==
    /\ pc = "connect"
    /\ Log("connect")
    /\ Raise("Error")
    /\ UNCHANGED <<fsVars, zip0, connVars, run>>

(* conn.cursor(), cursor.execute(put_cmd), cursor.fetchall() all return. *)
Put ==
    /\ pc = "put"
    /\ Log("execute")
    /\ Goto("close")
    /\ UNCHANGED <<fsVars, zip0, connVars, run>>

(* Variant: no finally clause, the exception leaves with the handle open. *)
PutErrorNoFinally ==
    /\ pc = "put"
    /\ Log("execute")
    /\ Raise("Error")
    /\ UNCHANGED <<fsVars, zip0, connVars, run>>

(* One of them raises: the finally clause runs with the exception pending. *)
PutError ==
    /\ pc = "put"
    /\ Log("execute")
    /\ pending' = "Error"
    /\ Goto("close")
    /\ UNCHANGED <<fsVars, zip0, driver, env, connOpen, run>>

(* finally: conn.close() *)
Close ==
    /\ pc = "close"
    /\ connOpen' = FALSE
    /\ IF pending = "none"
       THEN /\ calls' = calls \o <<"close", "upload_to_snowflake.return">>
            /\ Goto("clean_dir")
       ELSE /\ Log("close")
            /\ Raise(pending)
    /\ UNCHANGED <<fsVars, zip0, driver, env, pending, run>>

(* conn.close() itself raises; the handle has been passed to close. *)
CloseError ==
    /\ pc = "close"
    /\ connOpen' = FALSE
    /\ Log("close")
    /\ Raise("Error")
    /\ UNCHANGED <<fsVars, zip0, driver, env, pending, run>>

----------------------------------------------------------------------------
(* main: cleanup, the except clause, and the next run of the program *)

CleanDir ==
    /\ pc = "clean_dir"
    /\ IF exists(fsDirs, fsFiles, download_dir)
       THEN /\ fsDirs' = rmtree(fsDirs, download_dir)
            /\ fsFiles' = rmtree(fsFiles, download_dir)
            /\ Log("main.rmtree")
       ELSE UNCHANGED <<fsDirs, fsFiles, calls>>
    /\ Goto("clean_zip")
    /\ UNCHANGED <<zipf, zip0, connVars, run>>

CleanDirError ==
    /\ pc = "clean_dir"
    /\ exists(fsDirs, fsFiles, download_dir)
    /\ \E R \in PartialTrees(fsDirs \cup fsFiles, download_dir) :
          /\ fsDirs' = rmtree(fsDirs, download_dir) \cup (R \cap fsDirs)
          /\ fsFiles' = rmtree(fsFiles, download_dir) \cup (R \cap fsFiles)
    /\ Log("main.rmtree")
    /\ Raise("OSError")
    /\ UNCHANGED <<zipf, zip0, connVars, run>>

(* Variant: the archive file is not removed. *)
CleanZipKeep ==
    /\ pc = "clean_zip"
    /\ pc' = "done"
    /\ exitStatus' = 0
    /\ UNCHANGED <<fsVars, calls, failure, failedFrom, zip0, connVars, run>>

CleanZip ==
    /\ pc = "clean_zip"
    /\ IF exists(fsDirs, fsFiles, zip_name)
       THEN /\ fsFiles' = fsFiles \ {zip_name}
            /\ zipf' = EmptyBag
            /\ Log("main.remove")
       ELSE UNCHANGED <<fsFiles, zipf, calls>>
    /\ pc' = "done"
    /\ exitStatus' = 0
    /\ UNCHANGED <<fsDirs, failure, failedFrom, zip0, connVars, run>>

CleanZipError ==
    /\ pc = "clean_zip"
    /\ exists(fsDirs, fsFiles, zip_name)
    /\ Log("main.remove")
    /\ Raise("OSError")
    /\ UNCHANGED <<fsVars, zip0, connVars, run>>

(* Variant: the except clause removes the download directory. *)
ExceptCleanup ==
    /\ pc = "except"
    /\ pc' = "failed"
    /\ exitStatus' = 1
    /\ fsDirs' = rmtree(fsDirs, download_dir)
    /\ fsFiles' = rmtree(fsFiles, download_dir)
    /\ Log("main.rmtree")
    /\ UNCHANGED <<zipf, zip0, failure, failedFrom, connVars, run>>

(* Variant: the except clause logs and exits with status 0. *)
ExceptExitZero ==
    /\ pc = "except"
    /\ pc' = "failed"
    /\ exitStatus' = 0
    /\ UNCHANGED <<fsVars, zip0, failure, failedFrom, calls, connVars, run>>

(* Variant: the except clause starts the pipeline over. *)
ExceptRetry ==
    /\ pc = "except"
    /\ pc' = "init"
    /\ calls' = <<>>
    /\ UNCHANGED <<fsVars, zip0, exitStatus, failure, failedFrom, connVars, run>>

(* except Exception as e: logger.error(...); sys.exit(1) *)
Except ==
    /\ pc = "except"
    /\ pc' = "failed"
    /\ exitStatus' = 1
    /\ UNCHANGED <<fsVars, zip0, failure, failedFrom, calls, connVars, run>>

(* The process has ended; the program is started again on the filesystem   *)
(* the last run left.                                                      *)
NewRun ==
    /\ pc \in {"done", "failed"}
    /\ run < MaxRuns
    /\ run' = run + 1
    /\ pc' = "init"
    /\ exitStatus' = -1
    /\ failure' = "none"
    /\ failedFrom' = "none"
    /\ calls' = <<>>
    /\ driver' = TRUE
    /\ env' = NoEnv
    /\ connOpen' = FALSE
    /\ pending' = "none"
    /\ zip0' = ZipState
    /\ UNCHANGED fsVars

----------------------------------------------------------------------------
Next ==
    \/ CallDownload \/ DownloadRmtree \/ DownloadRmtreeError
    \/ DownloadMakedirs \/ DownloadMakedirsError \/ PipOk \/ PipError
    \/ CallCreateZip \/ ZipOpen \/ ZipOpenError \/ ZipWrite \/ ZipWriteError
    \/ CallUpload \/ Import \/ ImportErrorExit \/ Credentials
    \/ Connect \/ ConnectError \/ Put \/ PutError \/ Close \/ CloseError
    \/ CleanDir \/ CleanDirError \/ CleanZip \/ CleanZipError
    \/ Except \/ NewRun

Spec == Init /\ [][Next]_vars

(* create_zip alone, on every directory tree up to MaxDepth and on an      *)
(* output path that holds nothing or an older archive.                     *)
OldArchives ==
    {EmptyBag, SetToBag({<<"old">>}), SetToBag({<<"a">>}) (+) SetToBag({<<"a">>})}

InitZip ==
    /\ \E t \in TreesAt(download_dir, MaxDepth), present \in BOOLEAN :
          /\ fsDirs = t.dirs
          /\ fsFiles = t.files \cup (IF present THEN {zip_name} ELSE {})
          /\ zipf \in (IF present THEN OldArchives ELSE {EmptyBag})
          /\ zip0 = [present |-> present, entries |-> zipf]
    /\ pc = "call_zip"
    /\ exitStatus = -1
    /\ failure = "none"
    /\ failedFrom = "none"
    /\ calls = <<>>
    /\ driver = TRUE
    /\ env = NoEnv
    /\ connOpen = FALSE
    /\ pending = "none"
    /\ run = 1

NextZip == CallCreateZip \/ ZipOpen \/ ZipOpenError \/ ZipWrite \/ ZipWriteError

SpecZip == InitZip /\ [][NextZip]_vars

----------------------------------------------------------------------------
(* What the properties below read off a state. *)

Has(ev) == \E i \in DOMAIN calls : calls[i] = ev

Count(ev) == Cardinality({i \in DOMAIN calls : calls[i] = ev})

IsPrefix(s, t) == Len(s) <= Len(t) /\ SubSeq(t, 1, Len(s)) = s

StageOrder ==
    <<"download_packages", "download_packages.return",
      "create_zip", "create_zip.return",
      "upload_to_snowflake", "upload_to_snowflake.return">>

IsStageEvent(ev) == \E i \in DOMAIN StageOrder : StageOrder[i] = ev

Ended == pc \in {"done", "failed"}

DirPresent == exists(fsDirs, fsFiles, download_dir)

ZipPresent == exists(fsDirs, fsFiles, zip_name)

Below == {q \in fsDirs \cup fsFiles : Under(download_dir, q) /\ q # download_dir}

FullyPopulated ==
    /\ download_dir \in fsDirs
    /\ Below = {join(download_dir, w) : w \in Wheels}
    /\ Below \subseteq fsFiles

UploadEnded == Has("upload_to_snowflake") /\ RunState(pc) # "UPLOADING"

MissingCredential ==
    env.account = None \/ env.user = None \/ env.password = None

----------------------------------------------------------------------------
(* C1: in every run of main() the stages start in the order Fetcher,       *)
(* Archiver, Uploader with no interleaving: the calls and normal returns   *)
(* of the three stages, in the order they happen, are an initial part of   *)
(* call download_packages, return, call create_zip, return,                *)
(* call upload_to_snowflake, return.                                       *)
C1_StagesInOrder == IsPrefix(SelectSeq(calls, IsStageEvent), StageOrder)

C1_Witness == pc = "done" /\ Has("upload_to_snowflake.return")

(* C2, as claimed: whenever all three stages have completed without error, *)
(* the download directory and the archive are absent when the run ends.    *)
C2_AbsentAfterStages ==
    (Ended /\ Has("upload_to_snowflake.return")) => (~DirPresent /\ ~ZipPresent)

(* C2, amended: in every run that ends with exit status 0 (all three       *)
(* stages and both cleanup steps completed without error) the download     *)
(* directory and the archive file are absent when the run ends, whatever   *)
(* existed there before the run.                                           *)
C2_AbsentAfterExitZero ==
    (Ended /\ exitStatus = 0) => (~DirPresent /\ ~ZipPresent)

C2_Witness ==
    pc = "done" /\ zip0.present /\ Has("download_packages.rmtree") /\ Has("main.remove")

(* C3, as claimed: when the download tool exits non-zero the run ends with *)
(* a non-zero status, neither Archiver nor Uploader was started, and no    *)
(* archive file is present at the end of the run.                          *)
C3_NoArchivePresent ==
    (pc = "failed" /\ failure = "CalledProcessError") =>
        /\ exitStatus # 0
        /\ ~Has("create_zip") /\ ~Has("upload_to_snowflake")
        /\ ~ZipPresent

(* C3, amended: when the download tool exits non-zero the run ends with a  *)
(* non-zero status, neither Archiver nor Uploader is started (no           *)
(* connection, no upload attempt), and no archive is written: the archive  *)
(* path holds at the end exactly what it held before the run.              *)
C3_NoArchiveWritten ==
    (failure = "CalledProcessError") =>
        /\ pc \in {"except", "failed"}
        /\ pc = "failed" => exitStatus = 1
        /\ ~Has("create_zip") /\ ~Has("upload_to_snowflake") /\ ~Has("connect")
        /\ ZipState = zip0

C3_Witness == pc = "failed" /\ failure = "CalledProcessError" /\ zip0.present

(* C4, as claimed: whenever account, user or password is absent the        *)
(* Uploader fails with ValueError and makes no connection call.            *)
C4_ValueErrorAlways ==
    (UploadEnded /\ MissingCredential) =>
        (failure = "ValueError" /\ ~Has("connect"))

(* C4, amended: whenever account, user or password is absent the Uploader  *)
(* makes no connection call and fails: with ValueError when the driver can *)
(* be imported, and by ending the process with status 1 before reading the *)
(* credentials when it cannot.  Role, warehouse, database and schema have  *)
(* no influence on this.                                                   *)
C4_NoConnectWithoutCredentials ==
    (Has("upload_to_snowflake") /\ MissingCredential) =>
        /\ ~Has("connect")
        /\ ~connOpen
        /\ UploadEnded =>
              /\ failedFrom = "UPLOADING"
              /\ failure = (IF driver THEN "ValueError" ELSE "SystemExit")

C4_Witness ==
    /\ pc = "failed" /\ failure = "ValueError"
    /\ env.account = "acc" /\ env.user = "usr" /\ env.password = None
    /\ env.role = "role" /\ env.warehouse = "wh"

C6_ArchiveIsListing ==
    Has("create_zip.return") =>
        /\ \A f \in Below \cap fsFiles :
              CopiesIn(SubSeq(f, Len(download_dir) + 1, Len(f)), zipf) = 1
        /\ BagToSet(zipf) =
              {SubSeq(f, Len(download_dir) + 1, Len(f)) : f \in Below \cap fsFiles}
        /\ \A d \in Below \cap fsDirs :
              ~BagIn(SubSeq(d, Len(download_dir) + 1, Len(d)), zipf)

C6_Witness ==
    /\ Has("create_zip.return")
    /\ zip0.present /\ zip0.entries # EmptyBag
    /\ \E f \in fsFiles : Len(f) = 3 /\ Under(download_dir, f)
    /\ \E d \in fsDirs : Len(d) = 2 /\ ~\E q \in Below : q # d /\ Under(d, q)

(* C7: at the moment the download tool is invoked the download directory   *)
(* exists and is empty, whatever the filesystem held before.               *)
C7_EmptyAtDownload == pc = "pip" => (download_dir \in fsDirs /\ Below = {})

C7_Witness == pc = "pip" /\ run = 2 /\ Has("download_packages.rmtree")

(* C8, as claimed: between runs the download directory is absent or fully  *)
(* populated by a completed fetch, never empty or partly populated.        *)
C8_AbsentOrFull == Ended => (~DirPresent \/ FullyPopulated)

(* C8, amended: a run that ends with exit status 0 leaves the download     *)
(* directory absent, and a run that fails in the archive or upload stage   *)
(* leaves it fully populated by that run's completed fetch; a run that     *)
(* fails in the fetch stage or in cleanup can leave it empty or partly     *)
(* populated.                                                              *)
C8_AfterRun ==
    Ended =>
        /\ exitStatus = 0 => ~DirPresent
        /\ failedFrom \in {"ARCHIVING", "UPLOADING"} => FullyPopulated

C8_Witness == pc = "failed" /\ failedFrom = "UPLOADING" /\ run = 2 /\ FullyPopulated

(* C9, as claimed: a run that terminates with a non-zero status has        *)
(* performed no cleanup, not even partially.                               *)
C9_NoCleanupWhenFailed ==
    (pc = "failed") => (~Has("main.rmtree") /\ ~Has("main.remove"))

(* C9, amended: a run that terminates with a non-zero status because the   *)
(* fetch, archive or upload stage failed has performed no cleanup, not     *)
(* even partially; the only other way to a non-zero status is a cleanup    *)
(* step that itself raises after all three stages completed, and then the  *)
(* cleanup done before it stays done.                                      *)
C9_NoCleanupOnStageFailure ==
    (pc = "failed") =>
        IF failedFrom \in {"FETCHING", "ARCHIVING", "UPLOADING"}
        THEN ~Has("main.rmtree") /\ ~Has("main.remove")
        ELSE failedFrom = "CLEANUP" /\ Has("upload_to_snowflake.return")

C9_Witness ==
    pc = "failed" /\ failedFrom = "UPLOADING" /\ DirPresent /\ ZipPresent

(* C10, as claimed: the per-run state moves only along INIT, FETCHING,     *)
(* ARCHIVING, UPLOADING, CLEANUP, DONE or into FAILED; FAILED is absorbing *)
(* within the run and is entered only from FETCHING, ARCHIVING or          *)
(* UPLOADING.                                                              *)
Chain ==
    {<<"INIT", "FETCHING">>, <<"FETCHING", "ARCHIVING">>,
     <<"ARCHIVING", "UPLOADING">>, <<"UPLOADING", "CLEANUP">>,
     <<"CLEANUP", "DONE">>}

RunStep(failing) ==
    LET s == RunState(pc)
        t == RunState(pc')
    IN \/ s = t /\ (s = "FAILED" => (calls' = calls /\ fsVars' = fsVars))
       \/ <<s, t>> \in Chain
       \/ t = "FAILED" /\ s \in failing
       \/ s \in {"DONE", "FAILED"} /\ t = "INIT" /\ run' = run + 1

C10_FailedFromStagesOnly ==
    [][RunStep({"FETCHING", "ARCHIVING", "UPLOADING"})]_vars

(* C10, amended: the same, except that FAILED is entered from FETCHING,    *)
(* ARCHIVING, UPLOADING or CLEANUP (a cleanup step that raises), never     *)
(* from INIT or DONE.                                                      *)
C10_FailedFromStagesOrCleanup ==
    [][RunStep({"FETCHING", "ARCHIVING", "UPLOADING", "CLEANUP"})]_vars

C10_Witness == pc = "failed" /\ failedFrom = "CLEANUP" /\ exitStatus = 1

====
